---------------------------- MODULE Spec2Model ----------------------------
(***************************************************************************)
(* Wave Function Collapse map generator (gerador-mapa-fco).                *)
(*                                                                         *)
(* The model follows src/src/funcao_onda/funcao_onda.py (pattern           *)
(* extraction, frequencies, rule table), src/src/algoritmo/                *)
(* manipular_onda.py (observe / collapse / propagate) and the solve loop   *)
(* of src/src/main.py.                                                     *)
(*                                                                         *)
(* A colour sample (the channel vector of one pixel) is one value of       *)
(* Cores: the code only ever compares samples for equality.  A pattern is  *)
(* a function on (row, column) pairs, 0-based as in the source.  A cell of *)
(* the coefficient matrix is the set of pattern indices whose boolean is   *)
(* True.                                                                   *)
(***************************************************************************)
EXTENDS Integers, Sequences, FiniteSets, TLC

\* ------------------------------------------------------------------ bounds
NumCores == 2
MaxAlturaImagem == 2
MaxLarguraImagem == 3
MaxSaida == 2
MaxFreq == 2
MaxSaidaUmaCor == 4
MaxTamanhoDirecoes == 4

Cores == 0 .. (NumCores - 1)
TamanhosPadrao == {1, 2}

\* the requested output shapes (height, width): negative, zero and positive
DimensoesSaida == (-1 .. MaxSaida) \X (-1 .. MaxSaida)

\* the pattern indices of the tensors observe is applied to on its own
PadroesObserve == {0, 1, 2}

VARIABLES
    imagem,               \* the input image decoded by inicializar: [h, w, px]
    tamanho_padrao,       \* N
    inverter,             \* include flipped windows
    rotacionar,           \* include rotated windows
    altura_saida,         \* output height
    largura_saida,        \* output width
    direcoes,             \* FuncaoOnda.direcoes   (sequence of offsets)
    padroes,              \* FuncaoOnda.padroes    (sequence of patterns)
    frequencias,          \* FuncaoOnda.frequencias
    regras,               \* FuncaoOnda.regras
    matriz_coeficientes,  \* FuncaoOnda.matriz_coeficientes
    status,               \* EstadoOnda of the solve loop
    min_entropy_pos,      \* cell returned by the last observe
    fila_propagacao,      \* work queue of the running propague
    visitadas,            \* cells the running propague has dequeued
    chamada,              \* 1: the loop's call of propague, 2: a repeated call
    pc,                   \* position in gerar_mapa_com_padrao
    argv,                 \* sys.argv of gerador_mapa.py, argv[1] the program
    argumentos            \* the arguments of its call of gerar_mapa_com_padrao

vars == << imagem, tamanho_padrao, inverter, rotacionar, altura_saida,
           largura_saida, direcoes, padroes, frequencias, regras,
           matriz_coeficientes, status, min_entropy_pos, fila_propagacao,
           visitadas, chamada, pc, argv, argumentos >>

\* the command line of gerador_mapa.py and the call it ends in
linha_de_comando == << argv, argumentos >>

\* the attributes of FuncaoOnda set by __init__
parametros == << tamanho_padrao, inverter, rotacionar, altura_saida,
                 largura_saida >>

entrada == << imagem, parametros >>

onda == << direcoes, padroes, frequencias, regras >>

propagacao == << fila_propagacao, visitadas, chamada >>

\* ----------------------------------------------------------- small helpers
Max(a, b) == IF a >= b THEN a ELSE b
Min(a, b) == IF a <= b THEN a ELSE b
Abs(a) == IF a >= 0 THEN a ELSE -a

RECURSIVE SomaFreq(_, _)
\* np.sum of the frequencies of a set of pattern indices
SomaFreq(freq, S) ==
    IF S = {} THEN 0
    ELSE LET p == CHOOSE x \in S : TRUE
         IN  freq[p + 1] + SomaFreq(freq, S \ {p})

\* list.count(item)
Count(seq, item) == Cardinality({k \in 1 .. Len(seq) : seq[k] = item})

\* ------------------------------------------------ FuncaoOnda.gerar_direcoes
\* gerar_direcoes without direcoes.remove((0, 0))
gerar_direcoes_com_centro(n) ==
    LET lado == 2 * n - 1
    IN  [k \in 1 .. lado * lado |->
            << ((k - 1) % lado) - n + 1, ((k - 1) \div lado) - n + 1 >>]

\* [(i, j) for j in range(-n + 1, n) for i in range(-n + 1, n)], then
\* remove((0, 0))
gerar_direcoes(n) ==
    LET lado == 2 * n - 1
        todas == [k \in 1 .. lado * lado |->
                     << ((k - 1) % lado) - n + 1, ((k - 1) \div lado) - n + 1 >>]
    IN  SelectSeq(todas, LAMBDA d : d # << 0, 0 >>)

inverter_direcao(d) == << (-1) * d[1], (-1) * d[2] >>

\* --------------------------------------- FuncaoOnda.extrair_padroes_da_image
\* im[i : i + N, j : j + N, :]
Janela(im, i, j, N) ==
    [a \in 0 .. N - 1, b \in 0 .. N - 1 |-> im.px[i + a, j + b]]

\* np.flip(pattern, axis)
Flip(p, N, axis) ==
    IF axis = 0
    THEN [a \in 0 .. N - 1, b \in 0 .. N - 1 |-> p[N - 1 - a, b]]
    ELSE [a \in 0 .. N - 1, b \in 0 .. N - 1 |-> p[a, N - 1 - b]]

\* np.rot90(pattern, k): k quarter turns counter-clockwise
RECURSIVE Rot90(_, _, _)
Rot90(p, N, k) ==
    IF k = 0 THEN p
    ELSE LET q == Rot90(p, N, k - 1)
         IN  [a \in 0 .. N - 1, b \in 0 .. N - 1 |-> q[b, N - 1 - a]]

\* extrair_padroes_da_image with "padroes += invertido" before the
\* rotations are taken: the flipped windows are rotated too
extrair_padroes_encadeado(im, N, inv, rot) ==
    LET nl == Max(0, im.h - N + 1)
        nc == Max(0, im.w - N + 1)
        n  == nl * nc
        janelas == [k \in 1 .. n |->
                       Janela(im, (k - 1) \div nc, (k - 1) % nc, N)]
        invertido ==
            IF inv
            THEN [k \in 1 .. 2 * n |->
                     Flip(janelas[((k - 1) % n) + 1], N, (k - 1) \div n)]
            ELSE << >>
        base == janelas \o invertido
        nb == Len(base)
        rotacionado ==
            IF rot
            THEN [k \in 1 .. 3 * nb |->
                     Rot90(base[((k - 1) % nb) + 1], N, ((k - 1) \div nb) + 1)]
            ELSE << >>
    IN  base \o rotacionado

extrair_padroes_da_image(im, N, inv, rot) ==
    LET nl == Max(0, im.h - N + 1)       \* len(np.arange(im.shape[0] - N + 1))
        nc == Max(0, im.w - N + 1)
        n  == nl * nc
        janelas == [k \in 1 .. n |->
                       Janela(im, (k - 1) \div nc, (k - 1) % nc, N)]
        invertido ==
            IF inv
            THEN [k \in 1 .. 2 * n |->
                     Flip(janelas[((k - 1) % n) + 1], N, (k - 1) \div n)]
            ELSE << >>
        rotacionado ==
            IF rot
            THEN [k \in 1 .. 3 * n |->
                     Rot90(janelas[((k - 1) % n) + 1], N, ((k - 1) \div n) + 1)]
            ELSE << >>
    IN  janelas \o invertido \o rotacionado

\* ------------------------------------ para_tupla / para_ndarray conversions
\* an N x N array as a tuple of row tuples (1-based sequences)
para_tupla(p, N) == [a \in 1 .. N |-> [b \in 1 .. N |-> p[a - 1, b - 1]]]

\* a tuple of row tuples back to an array
para_ndarray(t) ==
    [a \in 0 .. Len(t) - 1, b \in 0 .. Len(t) - 1 |-> t[a + 1][b + 1]]

\* ----------------------------------- FuncaoOnda.gerar_padroes_e_frequencias
\* a list of (item, count) pairs in place of the dictionary: one entry per
\* candidate, equal candidates not merged
gerar_padroes_sem_dicionario(im, N, inv, rot) ==
    LET candidatos == extrair_padroes_da_image(im, N, inv, rot)
        tuplas == [k \in 1 .. Len(candidatos) |-> para_tupla(candidatos[k], N)]
    IN  [chaves  |-> tuplas,
         valores |-> [k \in 1 .. Len(tuplas) |-> Count(tuplas, tuplas[k])]]

\* {item: padroes.count(item) for item in padroes}: the keys in order of
\* first insertion, each with the count of its occurrences in the list
gerar_padroes_e_frequencias(im, N, inv, rot) ==
    LET candidatos == extrair_padroes_da_image(im, N, inv, rot)
        tuplas == [k \in 1 .. Len(candidatos) |-> para_tupla(candidatos[k], N)]
        primeiros == SelectSeq([k \in 1 .. Len(tuplas) |-> k],
                         LAMBDA k : \A m \in 1 .. k - 1 : tuplas[m] # tuplas[k])
    IN  [chaves  |-> [k \in 1 .. Len(primeiros) |-> tuplas[primeiros[k]]],
         valores |-> [k \in 1 .. Len(primeiros) |->
                         Count(tuplas, tuplas[primeiros[k]])]]

\* ---------------------------------------------- FuncaoOnda.mask_with_offset
\* pattern[max(0, x) : min(len + x, len), max(0, y) : min(len0 + y, len0), :]
\* re-indexed from 0 as a numpy slice is
mask_with_offset(pattern, N, offset) ==
    LET x == offset[1]
        y == offset[2]
        l0 == Max(0, x)
        l1 == Min(N + x, N)
        c0 == Max(0, y)
        c1 == Min(N + y, N)
    IN  IF Abs(x) > N \/ Abs(y) > N
        THEN [a \in {}, b \in {} |-> 0]
        ELSE [a \in 0 .. (l1 - l0 - 1), b \in 0 .. (c1 - c0 - 1) |->
                 pattern[l0 + a, c0 + b]]

\* ----------------------------------------------- FuncaoOnda.check_for_match
\* check_for_match masking p2 with the offset itself, not its inverse
check_for_match_sem_inverter(p1, p2, N, offset) ==
    LET p1_offset == mask_with_offset(p1, N, offset)
        p2_offset == mask_with_offset(p2, N, offset)
    IN  /\ DOMAIN p1_offset = DOMAIN p2_offset
        /\ \A ab \in DOMAIN p1_offset : p1_offset[ab] = p2_offset[ab]

check_for_match(p1, p2, N, offset) ==
    LET p1_offset == mask_with_offset(p1, N, offset)
        p2_offset == mask_with_offset(p2, N, inverter_direcao(offset))
    IN  /\ DOMAIN p1_offset = DOMAIN p2_offset
        /\ \A ab \in DOMAIN p1_offset : p1_offset[ab] = p2_offset[ab]

Range(seq) == {seq[k] : k \in 1 .. Len(seq)}

\* get_regras without "regras[j][inverter_direcao(direcao)].add(i)"
get_regras_so_ida(pads, dirs, N) ==
    LET P == Len(pads)
    IN  [p1 \in 1 .. P |->
            [d \in Range(dirs) |->
                {j \in (p1 - 1) .. (P - 1) :
                     check_for_match(pads[p1], pads[j + 1], N, d)}]]

\* ---------------------------------------------------- FuncaoOnda.get_regras
\* The three nested loops add j to regras[i][direcao] and i to
\* regras[j][-direcao] for every i <= j whose patterns match at direcao.
\* Entry (p, d) therefore collects the j >= p added by the first statement
\* (i = p, direcao = d) and the i <= p added by the second (j = p,
\* direcao = -d).  Pattern indices are 0-based; the entry of pattern p is
\* element p + 1 of the sequence.
get_regras(pads, dirs, N) ==
    LET P == Len(pads)
    IN  [p1 \in 1 .. P |->
            [d \in Range(dirs) |->
                {j \in (p1 - 1) .. (P - 1) :
                     check_for_match(pads[p1], pads[j + 1], N, d)}
                \cup
                {i \in 0 .. (p1 - 1) :
                     check_for_match(pads[i + 1], pads[p1], N,
                                     inverter_direcao(d))}]]

\* ------------------------------------------------------ manipular_onda.py
Celulas(m) == DOMAIN m

\* propague without the test "not celula_colapsada(...)"
celula_colapsada_nunca(m, pos) == FALSE

\* np.sum(matriz_coeficientes[pos]) == 1
celula_colapsada(m, pos) == Cardinality(m[pos]) = 1

\* na_matriz without the lower limits
na_matriz_sem_limite_inferior(posicao, dimensao) ==
    posicao[1] < dimensao[1] /\ posicao[2] < dimensao[2]

\* 0 <= posicao[0] < dimensao[0] and 0 <= posicao[1] < dimensao[1]
na_matriz(posicao, dimensao) ==
    /\ 0 <= posicao[1] /\ posicao[1] < dimensao[1]
    /\ 0 <= posicao[2] /\ posicao[2] < dimensao[2]

\* propagar_celula without the multiplication by the adjacent cell
propagar_celula_sem_multiplicar(celula_origem, direcao, m, rgs) ==
    UNION {rgs[padrao + 1][direcao] : padrao \in m[celula_origem]}

\* propagar_celula using only the lowest possible pattern of the source
\* cell, not the union over all of them
propagar_celula_um_padrao(celula_origem, direcao, m, rgs) ==
    LET posicao_celula_adjacente ==
            << celula_origem[1] + direcao[1], celula_origem[2] + direcao[2] >>
        possibilidade_direcao ==
            IF m[celula_origem] = {} THEN {}
            ELSE rgs[(CHOOSE p \in m[celula_origem] :
                          \A o \in m[celula_origem] : p <= o) + 1][direcao]
    IN  possibilidade_direcao \cap m[posicao_celula_adjacente]

\* propagar_celula reading the rules of the opposite direction
propagar_celula_direcao_invertida(celula_origem, direcao, m, rgs) ==
    LET posicao_celula_adjacente ==
            << celula_origem[1] + direcao[1], celula_origem[2] + direcao[2] >>
        possibilidade_direcao ==
            UNION {rgs[padrao + 1][inverter_direcao(direcao)] :
                       padrao \in m[celula_origem]}
    IN  possibilidade_direcao \cap m[posicao_celula_adjacente]

\* the union, over the patterns possible at the source cell, of
\* regras[padrao][direcao], multiplied (AND) with the adjacent cell
propagar_celula(celula_origem, direcao, m, rgs) ==
    LET posicao_celula_adjacente ==
            << celula_origem[1] + direcao[1], celula_origem[2] + direcao[2] >>
        possibilidade_direcao ==
            UNION {rgs[padrao + 1][direcao] : padrao \in m[celula_origem]}
    IN  possibilidade_direcao \cap m[posicao_celula_adjacente]

\* the for loop of propague without the test "not in fila_propagacao.queue"
NaFila_nunca(fila, pos) == FALSE

\* membership test on the queue: pos in fila_propagacao.queue
NaFila(fila, pos) == \E k \in 1 .. Len(fila) : fila[k] = pos

\* the cells of the tensor one iteration of the while loop of propague
\* addresses: the dequeued cell and every adjacent position that passes
\* na_matriz (read by celula_colapsada and propagar_celula, written and
\* enqueued only if narrowed)
CelulasEnderecadas(celula, dirs, dimensao) ==
    {celula} \cup
    {pos \in {<< celula[1] + dirs[k][1], celula[2] + dirs[k][2] >> :
                  k \in 1 .. Len(dirs)} : na_matriz(pos, dimensao)}

\* the for loop of propague without "if not np.array_equal(...)": the
\* adjacent cell is enqueued whether or not it changed
RECURSIVE ParaCadaDirecao_sem_comparar(_, _, _, _, _, _, _)
ParaCadaDirecao_sem_comparar(celula, k, m, fila, rgs, dirs, dimensao) ==
    IF k > Len(dirs) THEN [matriz |-> m, fila |-> fila]
    ELSE
      LET direcao == dirs[k]
          pos_celula_adjacente ==
              << celula[1] + direcao[1], celula[2] + direcao[2] >>
      IN  IF /\ na_matriz(pos_celula_adjacente, dimensao)
             /\ ~ celula_colapsada(m, pos_celula_adjacente)
          THEN ParaCadaDirecao_sem_comparar(celula, k + 1,
                   [m EXCEPT ![pos_celula_adjacente] =
                        propagar_celula(celula, direcao, m, rgs)],
                   IF ~ NaFila(fila, pos_celula_adjacente)
                   THEN Append(fila, pos_celula_adjacente)
                   ELSE fila,
                   rgs, dirs, dimensao)
          ELSE ParaCadaDirecao_sem_comparar(celula, k + 1, m, fila, rgs, dirs,
                                            dimensao)

\* One pass of "for direcao in direcoes" (from direction k on) for the
\* dequeued cell: the state is the matrix and the queue.
RECURSIVE ParaCadaDirecao(_, _, _, _, _, _, _)
ParaCadaDirecao(celula, k, m, fila, rgs, dirs, dimensao) ==
    IF k > Len(dirs) THEN [matriz |-> m, fila |-> fila]
    ELSE
      LET direcao == dirs[k]
          pos_celula_adjacente ==
              << celula[1] + direcao[1], celula[2] + direcao[2] >>
      IN  IF /\ na_matriz(pos_celula_adjacente, dimensao)
             /\ ~ celula_colapsada(m, pos_celula_adjacente)
          THEN LET celula_atualizada == propagar_celula(celula, direcao, m, rgs)
               IN  IF m[pos_celula_adjacente] # celula_atualizada
                   THEN ParaCadaDirecao(celula, k + 1,
                            [m EXCEPT ![pos_celula_adjacente] = celula_atualizada],
                            IF ~ NaFila(fila, pos_celula_adjacente)
                            THEN Append(fila, pos_celula_adjacente)
                            ELSE fila,
                            rgs, dirs, dimensao)
                   ELSE ParaCadaDirecao(celula, k + 1, m, fila, rgs, dirs, dimensao)
          ELSE ParaCadaDirecao(celula, k + 1, m, fila, rgs, dirs, dimensao)

\* entropias without "entropias[np.sum(matriz_coeficientes, axis=2) == 1] = 0"
entropias_sem_zerar(m, freq) ==
    [pos \in Celulas(m) |-> SomaFreq(freq, m[pos])]

\* entropy of every cell, scaled by np.sum(frequencias): the sum of the
\* frequencies of the possible patterns; 0 for a collapsed cell
entropias(m, freq) ==
    [pos \in Celulas(m) |->
        IF Cardinality(m[pos]) = 1 THEN 0 ELSE SomaFreq(freq, m[pos])]

\* coordenadas_celula_minima_entropia without "if np.sum(entropias) == 0":
\* with no positive entropy np.amin returns its initial value, the maximum
\* entropy 0, and np.argwhere finds every cell
coordenadas_sem_soma_zero(m, freq) ==
    LET e == entropias(m, freq)
    IN  IF \A pos \in Celulas(m) : e[pos] <= 0
        THEN Celulas(m)
        ELSE {pos \in Celulas(m) :
                 /\ e[pos] > 0
                 /\ \A outra \in Celulas(m) : e[outra] > 0 => e[pos] <= e[outra]}

\* the cells coordenadas_celula_minima_entropia may return; {} stands for
\* the result (-1, -1, COLAPSADA)
coordenadas_celula_minima_entropia(m, freq) ==
    LET e == entropias(m, freq)
    IN  IF \A pos \in Celulas(m) : e[pos] = 0
        THEN {}
        ELSE {pos \in Celulas(m) :
                 /\ e[pos] > 0
                 /\ \A outra \in Celulas(m) : e[outra] > 0 => e[pos] <= e[outra]}

\* colapse_celula working on a copy: the matrix it returns is unchanged
colapse_celula_sem_efeito(m, pos_min_entropia, indice_padrao_escolhido) == m

\* colapse_celula without setting the chosen pattern back to True
colapse_celula_vazia(m, pos_min_entropia, indice_padrao_escolhido) ==
    [m EXCEPT ![pos_min_entropia] = {}]

\* colapse_celula indexing the tensor by the row alone: the whole row of
\* the cell is cleared and the chosen pattern set at the cell
colapse_celula_linha(m, pos_min_entropia, indice_padrao_escolhido) ==
    [c \in DOMAIN m |->
        IF c = pos_min_entropia THEN {indice_padrao_escolhido}
        ELSE IF c[1] = pos_min_entropia[1] THEN {}
        ELSE m[c]]

\* the cell keeps only indice_padrao_escolhido
colapse_celula(m, pos_min_entropia, indice_padrao_escolhido) ==
    [m EXCEPT ![pos_min_entropia] = {indice_padrao_escolhido}]

\* observe without the contradiction check
Contradicao_nunca(m) == FALSE

\* np.all in place of the outer np.any
Contradicao_todas(m) == \A pos \in Celulas(m) : m[pos] = {}

\* np.any(~np.any(matriz_coeficientes, axis=2))
Contradicao(m) == \E pos \in Celulas(m) : m[pos] = {}

\* ------------------------------------------------------------------ state
Imagens ==
    UNION {
      UNION {
        {[h |-> h, w |-> w, px |-> px] :
             px \in [(0 .. h - 1) \X (0 .. w - 1) -> Cores]}
        : w \in 1 .. MaxLarguraImagem}
      : h \in 1 .. MaxAlturaImagem}

Init ==
    /\ imagem \in Imagens
    /\ tamanho_padrao \in TamanhosPadrao
    /\ inverter \in BOOLEAN
    /\ rotacionar \in BOOLEAN
    /\ \E d \in DimensoesSaida : altura_saida = d[1] /\ largura_saida = d[2]
    /\ direcoes = << >>
    /\ padroes = << >>
    /\ frequencias = << >>
    /\ regras = << >>
    /\ matriz_coeficientes = << >>
    /\ status = "NENHUM"
    /\ min_entropy_pos = << -1, -1 >>
    /\ fila_propagacao = << >>
    /\ visitadas = {}
    /\ chamada = 1
    /\ pc = "inicializar"
    /\ argv = << >>          \* gerador_mapa.py is not run
    /\ argumentos = << >>

\* FuncaoOnda.inicializar, then status = EstadoOnda.INCIALIZADA
Inicializar ==
    /\ pc = "inicializar"
    /\ LET pf == gerar_padroes_e_frequencias(imagem, tamanho_padrao,
                                             inverter, rotacionar)
           pads == [k \in 1 .. Len(pf.chaves) |-> para_ndarray(pf.chaves[k])]
           dirs == gerar_direcoes(tamanho_padrao)
       IN  /\ direcoes' = dirs
           /\ padroes' = pads
           /\ frequencias' = pf.valores
           /\ regras' = get_regras(pads, dirs, tamanho_padrao)
           /\ IF altura_saida < 0 \/ largura_saida < 0
              THEN \* np.full raises ValueError: negative dimensions
                   /\ pc' = "erro"
                   /\ UNCHANGED << matriz_coeficientes, status >>
              ELSE /\ matriz_coeficientes' =
                          [pos \in (0 .. altura_saida - 1)
                                       \X (0 .. largura_saida - 1)
                              |-> 0 .. (Len(pads) - 1)]
                   /\ status' = "INCIALIZADA"
                   /\ \/ pc' = "observe"
                      \/ \* render_video: with no pattern, padroes[:, 0, 0] in
                         \* converter_coeficientes_para_imagem raises
                         \* IndexError
                         /\ Len(pads) = 0
                         /\ pc' = "erro"
    /\ imagem' = << >>      \* a local of gerar_padroes_e_frequencias
    /\ UNCHANGED << linha_de_comando, parametros, min_entropy_pos, propagacao >>

\* the loop without "if status == EstadoOnda.CONTRADICAO: exit(-1)": it
\* goes on to propagate
ObserveContradicao_sem_exit ==
    /\ pc = "observe"
    /\ Contradicao(matriz_coeficientes)
    /\ status' = "CONTRADICAO"
    /\ min_entropy_pos' = << -1, -1 >>
    /\ pc' = "propague"
    /\ UNCHANGED << linha_de_comando, entrada, onda, matriz_coeficientes, propagacao >>

\* observe finds a contradiction; the loop prints the message and exits
ObserveContradicao ==
    /\ pc = "observe"
    /\ Contradicao(matriz_coeficientes)
    /\ status' = "CONTRADICAO"
    /\ min_entropy_pos' = << -1, -1 >>
    /\ pc' = "fim"
    /\ UNCHANGED << linha_de_comando, entrada, onda, matriz_coeficientes, propagacao >>

\* observe with the test of the entropies before the contradiction test: a
\* tensor of empty and collapsed cells is reported as collapsed
ObserveColapsada_antes ==
    /\ pc = "observe"
    /\ coordenadas_celula_minima_entropia(matriz_coeficientes, frequencias) = {}
    /\ status' = "COLAPSADA"
    /\ min_entropy_pos' = << -1, -1 >>
    /\ pc' = IF Len(padroes) = 0 \/ altura_saida * largura_saida = 0
             THEN "erro"
             ELSE "fim"
    /\ UNCHANGED << linha_de_comando, entrada, onda, matriz_coeficientes, propagacao >>

\* observe finds every entropy 0; the loop saves the image and returns.
\* Before that, with no pattern converter_coeficientes_para_imagem raises
\* IndexError, and with no cell barra_progresso divides by zero.
ObserveColapsada ==
    /\ pc = "observe"
    /\ ~ Contradicao(matriz_coeficientes)
    /\ coordenadas_celula_minima_entropia(matriz_coeficientes, frequencias) = {}
    /\ status' = "COLAPSADA"
    /\ min_entropy_pos' = << -1, -1 >>
    /\ pc' = IF Len(padroes) = 0 \/ altura_saida * largura_saida = 0
             THEN "erro"
             ELSE "fim"
    /\ UNCHANGED << linha_de_comando, entrada, onda, matriz_coeficientes, propagacao >>

\* observe collapses one cell of minimum entropy; the loop goes on to
\* propagate
ObserveColapse ==
    /\ pc = "observe"
    /\ ~ Contradicao(matriz_coeficientes)
    /\ \E pos \in coordenadas_celula_minima_entropia(matriz_coeficientes,
                                                     frequencias) :
         \E indice \in matriz_coeficientes[pos] :
            /\ matriz_coeficientes' =
                   colapse_celula(matriz_coeficientes, pos, indice)
            /\ min_entropy_pos' = pos
    /\ status' = "EM_ANDAMENTO"
    /\ pc' = "propague"
    /\ UNCHANGED << linha_de_comando, entrada, onda, propagacao >>

\* propague is called: the queue is created holding the collapsed cell
PropagueInicio ==
    /\ pc = "propague"
    /\ fila_propagacao' = << min_entropy_pos >>
    /\ visitadas' = {}
    /\ chamada' = 1
    /\ pc' = "while"
    /\ UNCHANGED << linha_de_comando, entrada, onda, matriz_coeficientes, status, min_entropy_pos >>

\* one iteration of "while not fila_propagacao.empty()"
PropagueIteracao ==
    /\ pc = "while"
    /\ fila_propagacao # << >>
    /\ LET celula == Head(fila_propagacao)
           r == ParaCadaDirecao(celula, 1, matriz_coeficientes,
                                Tail(fila_propagacao), regras, direcoes,
                                << altura_saida, largura_saida >>)
       IN  /\ matriz_coeficientes' = r.matriz
           /\ fila_propagacao' = r.fila
           /\ visitadas' = visitadas \cup {celula}
    /\ UNCHANGED << linha_de_comando, entrada, onda, status, min_entropy_pos, chamada, pc >>

\* propague returning from inside its loop, whatever the queue holds
PropagueRetorno_antecipado ==
    /\ pc = "while"
    /\ pc' = "observe"
    /\ UNCHANGED << linha_de_comando, entrada, onda, matriz_coeficientes, status,
                    min_entropy_pos, propagacao >>

\* the queue is empty: propague returns and the loop observes again
PropagueRetorno ==
    /\ pc = "while"
    /\ fila_propagacao = << >>
    /\ pc' = "observe"
    /\ UNCHANGED << linha_de_comando, entrada, onda, matriz_coeficientes, status,
                    min_entropy_pos, propagacao >>

Observe ==
    \/ ObserveContradicao
    \/ ObserveColapsada
    \/ ObserveColapse

Resolva ==
    \/ Observe
    \/ PropagueInicio
    \/ PropagueIteracao
    \/ PropagueRetorno

Next == Inicializar \/ Resolva

Spec == Init /\ [][Next]_vars

\* propague is called once more from the cell of the call that has just
\* returned, before the next observe
Repropague ==
    /\ pc = "observe"
    /\ status = "EM_ANDAMENTO"
    /\ chamada = 1
    /\ fila_propagacao' = << min_entropy_pos >>
    /\ visitadas' = {}
    /\ chamada' = 2
    /\ pc' = "while"
    /\ UNCHANGED << linha_de_comando, entrada, onda, matriz_coeficientes, status, min_entropy_pos >>

NextRepropague == Next \/ Repropague

SpecRepropague == Init /\ [][NextRepropague]_vars

\* ------------------------------------------- single-colour input images
\* every pixel of the image has the same colour
UmaCor(im) == \A a \in DOMAIN im.px : \A b \in DOMAIN im.px : im.px[a] = im.px[b]

\* The program started on a single-colour image with an output of up to
\* MaxSaidaUmaCor x MaxSaidaUmaCor cells, or on any image with an output of
\* at most two cells.
InitUmaCor ==
    /\ imagem \in Imagens
    /\ tamanho_padrao \in TamanhosPadrao
    /\ inverter \in BOOLEAN
    /\ rotacionar \in BOOLEAN
    /\ \E d \in (0 .. MaxSaidaUmaCor) \X (0 .. MaxSaidaUmaCor) :
           /\ altura_saida = d[1]
           /\ largura_saida = d[2]
           /\ UmaCor(imagem) \/ d[1] * d[2] <= 2
    /\ direcoes = << >>
    /\ padroes = << >>
    /\ frequencias = << >>
    /\ regras = << >>
    /\ matriz_coeficientes = << >>
    /\ status = "NENHUM"
    /\ min_entropy_pos = << -1, -1 >>
    /\ fila_propagacao = << >>
    /\ visitadas = {}
    /\ chamada = 1
    /\ pc = "inicializar"
    /\ argv = << >>          \* gerador_mapa.py is not run
    /\ argumentos = << >>

SpecUmaCor == InitUmaCor /\ [][Next]_vars

\* ------------------------------------------------- observe on any tensor
\* observe(matriz_coeficientes, frequencias) applied to an arbitrary
\* boolean tensor of a 2 x 2 grid and arbitrary positive frequencies
InitObserve ==
    /\ imagem = << >>
    /\ tamanho_padrao = 1
    /\ inverter = FALSE
    /\ rotacionar = FALSE
    /\ altura_saida = 2
    /\ largura_saida = 2
    /\ direcoes = << >>
    /\ regras = << >>
    /\ padroes = [k \in 1 .. Cardinality(PadroesObserve) |-> k - 1]
    /\ frequencias \in [1 .. Cardinality(PadroesObserve) -> 1 .. MaxFreq]
    /\ matriz_coeficientes \in [(0 .. 1) \X (0 .. 1) -> SUBSET PadroesObserve]
    /\ status = "INCIALIZADA"
    /\ min_entropy_pos = << -1, -1 >>
    /\ fila_propagacao = << >>
    /\ visitadas = {}
    /\ chamada = 1
    /\ pc = "observe"
    /\ argv = << >>          \* gerador_mapa.py is not run
    /\ argumentos = << >>

SpecObserve == InitObserve /\ [][Observe]_vars

\* ------------------------------------------- the contradiction scenario
\* Rule tables over two patterns and the directions of pattern size 2 that
\* are symmetric under direction inversion, as the tables of get_regras
\* are, and in which pattern 0 allows only pattern 1 to its right (0, 1)
\* and pattern 1 allows no pattern below it (1, 0).  A table is given by
\* the set of compatible pairs << p, q >> of each of the four directions
\* (0, 1), (1, 0), (1, 1), (1, -1); the opposite directions follow.
MetadeDirecoes == {<< 0, 1 >>, << 1, 0 >>, << 1, 1 >>, << 1, -1 >>}

TabelaDePares(pares) ==
    [p1 \in 1 .. 2 |->
        [d \in Range(gerar_direcoes(2)) |->
            IF d \in MetadeDirecoes
            THEN {q \in {0, 1} : << p1 - 1, q >> \in pares[d]}
            ELSE {q \in {0, 1} :
                     << q, p1 - 1 >> \in pares[inverter_direcao(d)]}]]

TabelasContradicao ==
    {TabelaDePares(pares) :
        pares \in {f \in [MetadeDirecoes -> SUBSET ({0, 1} \X {0, 1})] :
                      /\ << 0, 1 >> \in f[<< 0, 1 >>]
                      /\ << 0, 0 >> \notin f[<< 0, 1 >>]
                      /\ << 1, 0 >> \notin f[<< 1, 0 >>]
                      /\ << 1, 1 >> \notin f[<< 1, 0 >>]}}

\* a 2 x 2 grid, cell (0, 0) just collapsed to pattern 0 by observe
InitContradicao ==
    /\ imagem = << >>
    /\ tamanho_padrao = 2
    /\ inverter = FALSE
    /\ rotacionar = FALSE
    /\ altura_saida = 2
    /\ largura_saida = 2
    /\ direcoes = gerar_direcoes(2)
    /\ regras \in TabelasContradicao
    /\ padroes = << 0, 1 >>
    /\ frequencias = << 1, 1 >>
    /\ matriz_coeficientes =
           [pos \in (0 .. 1) \X (0 .. 1) |->
               IF pos = << 0, 0 >> THEN {0} ELSE {0, 1}]
    /\ status = "EM_ANDAMENTO"
    /\ min_entropy_pos = << 0, 0 >>
    /\ fila_propagacao = << >>
    /\ visitadas = {}
    /\ chamada = 1
    /\ pc = "propague"
    /\ argv = << >>          \* gerador_mapa.py is not run
    /\ argumentos = << >>

SpecContradicao == InitContradicao /\ [][Resolva]_vars

\* ------------------------------------------ gerador_mapa.py (command line)
\* A text is the sequence of its characters.  The arguments tried: two
\* integers, the text True and a text that differs from it only in case.
MaxArgumentos == 9

TextoTrue == << "T", "r", "u", "e" >>

Textos == {<< "2" >>, << "-", "1" >>, TextoTrue, << "t", "r", "u", "e" >>}

Algarismos == << "0", "1", "2", "3", "4", "5", "6", "7", "8", "9" >>

\* the digits of a text after its optional sign
SemSinal(texto) ==
    IF Len(texto) > 0 /\ texto[1] \in {"+", "-"} THEN Tail(texto) ELSE texto

\* int(texto) does not raise ValueError: an optional sign, then one or more
\* decimal digits
inteiro_valido(texto) ==
    /\ Len(SemSinal(texto)) > 0
    /\ \A k \in 1 .. Len(SemSinal(texto)) :
           SemSinal(texto)[k] \in Range(Algarismos)

RECURSIVE ValorDecimal(_)
ValorDecimal(digitos) ==
    IF Len(digitos) = 0 THEN 0
    ELSE 10 * ValorDecimal(SubSeq(digitos, 1, Len(digitos) - 1))
             + (CHOOSE v \in 0 .. 9 :
                    Algarismos[v + 1] = digitos[Len(digitos)])

\* int(texto) for a text that is a valid integer
int(texto) ==
    IF Len(texto) > 0 /\ texto[1] = "-"
    THEN 0 - ValorDecimal(SemSinal(texto))
    ELSE ValorDecimal(SemSinal(texto))

\* bool(texto) in place of the comparison: any text that is not empty
igual_a_True_nao_vazio(texto) == Len(texto) > 0

\* sys.argv[k] == 'True'
igual_a_True(texto) == texto = TextoTrue

\* the try block raises IndexError (more than 9 entries), ValueError from
\* the unpacking of sys.argv[1:5] (fewer than 4 arguments) or ValueError
\* from int().  sys.argv[k] is argv[k + 1].
entrada_invalida ==
    \/ Len(argv) > 9
    \/ Len(SubSeq(argv, 2, Min(5, Len(argv)))) # 4
    \/ \E k \in 3 .. 5 : ~ inteiro_valido(argv[k])

\* gerador_mapa.py is started with up to MaxArgumentos arguments
InitCLI ==
    /\ \E n \in 0 .. MaxArgumentos :
           \E args \in [1 .. n -> Textos] :
               argv = << << "gerador_mapa.py" >> >> \o args
    /\ argumentos = << >>
    /\ imagem = << >>
    /\ tamanho_padrao = 0
    /\ inverter = FALSE
    /\ rotacionar = FALSE
    /\ altura_saida = 0
    /\ largura_saida = 0
    /\ direcoes = << >>
    /\ padroes = << >>
    /\ frequencias = << >>
    /\ regras = << >>
    /\ matriz_coeficientes = << >>
    /\ status = "NENHUM"
    /\ min_entropy_pos = << -1, -1 >>
    /\ fila_propagacao = << >>
    /\ visitadas = {}
    /\ chamada = 1
    /\ pc = "main"

\* the body of "if __name__ == '__main__'": the usage message, or the call
\* of gerar_mapa_com_padrao with the parsed arguments
Main ==
    /\ pc = "main"
    /\ IF entrada_invalida
       THEN /\ pc' = "uso"
            /\ UNCHANGED << argumentos, parametros >>
       ELSE /\ tamanho_padrao' = int(argv[3])
            /\ altura_saida' = int(argv[4])
            /\ largura_saida' = int(argv[5])
            /\ inverter' = (IF Len(argv) >= 6 THEN igual_a_True(argv[6])
                                              ELSE FALSE)
            /\ rotacionar' = (IF Len(argv) >= 7 THEN igual_a_True(argv[7])
                                                ELSE FALSE)
            /\ argumentos' =
                   << argv[2], tamanho_padrao', altura_saida', largura_saida',
                      inverter', rotacionar',
                      IF Len(argv) >= 8 THEN igual_a_True(argv[8]) ELSE TRUE,
                      IF Len(argv) = 9 THEN igual_a_True(argv[9]) ELSE TRUE >>
            /\ pc' = "gerar_mapa_com_padrao"
    /\ UNCHANGED << argv, imagem, onda, matriz_coeficientes, status,
                    min_entropy_pos, propagacao >>

SpecCLI == InitCLI /\ [][Main]_vars


\* ================================================================ claims
Padroes == 0 .. (Len(padroes) - 1)
CelulasSaida == (0 .. altura_saida - 1) \X (0 .. largura_saida - 1)
Vizinha(c, d) == << c[1] + d[1], c[2] + d[2] >>
Resolvendo == pc \in {"observe", "propague", "while", "fim"}
NoLaco == pc \in {"observe", "propague", "while"}

\* C1: whenever the solve ends with outcome Collapsed, for every cell c and
\* every direction d with c + d inside the grid, the pattern at c + d
\* belongs to regras[pattern at c][d].
C1_SaidaConsistente ==
    (pc = "fim" /\ status = "COLAPSADA") =>
        \A c \in CelulasSaida : \A d \in Range(direcoes) :
            na_matriz(Vizinha(c, d), << altura_saida, largura_saida >>) =>
                \A p \in matriz_coeficientes[c] :
                    \A q \in matriz_coeficientes[Vizinha(c, d)] :
                        q \in regras[p + 1][d]

\* C3: the tensor starts with every entry true and no step of the solve
\* turns an entry from false to true.
C3_Monotona ==
    /\ [](status = "INCIALIZADA" =>
             \A c \in CelulasSaida : matriz_coeficientes[c] = Padroes)
    /\ [][Resolvendo =>
             \A c \in CelulasSaida :
                 matriz_coeficientes'[c] \subseteq matriz_coeficientes[c]]_vars

\* a propagation step has narrowed a cell other than the collapsed one
C3_Witness ==
    /\ pc = "observe"
    /\ status = "EM_ANDAMENTO"
    /\ \E c \in CelulasSaida :
           /\ c # min_entropy_pos
           /\ matriz_coeficientes[c] # Padroes

\* C4: the rule table built by get_regras is symmetric under direction
\* inversion: q in regras[p][d] iff p in regras[q][-d].
C4_RegrasSimetricas ==
    Resolvendo =>
        \A p \in Padroes : \A q \in Padroes : \A d \in Range(direcoes) :
            (q \in regras[p + 1][d]) <=>
                (p \in regras[q + 1][inverter_direcao(d)])

\* a table with two different patterns compatible in one direction and
\* incompatible in another
C4_Witness ==
    /\ Resolvendo
    /\ \E p \in Padroes : \E q \in Padroes \ {p} :
           /\ \E d \in Range(direcoes) : q \in regras[p + 1][d]
           /\ \E d \in Range(direcoes) : q \notin regras[p + 1][d]

RECURSIVE NumVerdadeiros(_, _)
\* the number of true entries of the cells S of the tensor
NumVerdadeiros(m, S) ==
    IF S = {} THEN 0
    ELSE LET c == CHOOSE x \in S : TRUE
         IN  Cardinality(m[c]) + NumVerdadeiros(m, S \ {c})

\* A variant of the solve loop: the number of true entries, weighted above
\* the position inside one iteration (the call of propague, then the
\* length of its queue).
Variante ==
    LET K == altura_saida * largura_saida + 3
        T == NumVerdadeiros(matriz_coeficientes, CelulasSaida)
    IN  CASE pc = "observe"  -> K * T
          [] pc = "propague" -> K * T + K - 1
          [] pc = "while"    -> K * T + 1 + Len(fila_propagacao)
          [] OTHER           -> -1

\* C2: the solve loop reaches a terminal outcome (Collapsed or
\* Contradiction) after finitely many iterations: every step of the loop
\* strictly decreases a variant that is never below -1, a step is possible
\* until the loop has ended, and it ends only with one of the two outcomes.
C2_Termina ==
    /\ [][NoLaco => (Variante' < Variante /\ Variante' >= -1)]_vars
    /\ [](NoLaco => ENABLED Resolva)
    /\ [](pc = "fim" => status \in {"COLAPSADA", "CONTRADICAO"})

\* a solve of at least two cells and two patterns has ended Collapsed, so
\* it went through observe / collapse / propagate iterations
C2_Witness ==
    /\ pc = "fim"
    /\ status = "COLAPSADA"
    /\ Len(padroes) >= 2
    /\ altura_saida * largura_saida >= 2

\* C7: after the collapse made by observe the cell has exactly one possible
\* pattern, that pattern was possible before, and the cell had at least two
\* possible patterns.
C7_ColapsoExclusivo ==
    [][(pc = "observe" /\ pc' = "propague") =>
          /\ Cardinality(matriz_coeficientes'[min_entropy_pos']) = 1
          /\ matriz_coeficientes'[min_entropy_pos']
                 \subseteq matriz_coeficientes[min_entropy_pos']
          /\ Cardinality(matriz_coeficientes[min_entropy_pos']) >= 2]_vars

\* observe has just collapsed a cell of a tensor of three or more patterns
\* in which propagation has left a cell with exactly two
C7_Witness ==
    /\ pc = "propague"
    /\ Len(padroes) >= 3
    /\ \E c \in CelulasSaida : Cardinality(matriz_coeficientes[c]) = 2


\* propague has emptied its queue and is about to return
PropagueTerminou == pc = "while" /\ fila_propagacao = << >>

\* every pattern possible at the uncollapsed in-bounds neighbour c + d is in
\* regras[p][d] for a pattern p possible at c
ArcoConsistente(c, d) ==
    ( /\ na_matriz(Vizinha(c, d), << altura_saida, largura_saida >>)
      /\ ~ celula_colapsada(matriz_coeficientes, Vizinha(c, d)) ) =>
        \A q \in matriz_coeficientes[Vizinha(c, d)] :
            \E p \in matriz_coeficientes[c] : q \in regras[p + 1][d]

\* C8 as claimed: when propague returns, every ordered pair of in-bounds
\* cells (c, c + d) with c + d not collapsed is arc consistent.
C8_ArcoConsistenteGlobal ==
    PropagueTerminou =>
        \A c \in CelulasSaida : \A d \in Range(direcoes) : ArcoConsistente(c, d)

\* C8 as amended: when propague returns, the pair (c, c + d) is arc
\* consistent for every cell c this call of propague has dequeued (the
\* collapsed cell and every cell narrowed during the call).
C8_ArcoConsistenteLocal ==
    PropagueTerminou =>
        \A c \in visitadas : \A d \in Range(direcoes) : ArcoConsistente(c, d)

\* propague returns after dequeuing a narrowed cell whose uncollapsed
\* neighbour it narrowed in turn
C8_Witness ==
    /\ PropagueTerminou
    /\ \E c \in visitadas \ {min_entropy_pos} : \E d \in Range(direcoes) :
           /\ na_matriz(Vizinha(c, d), << altura_saida, largura_saida >>)
           /\ Cardinality(matriz_coeficientes[Vizinha(c, d)]) >= 2
           /\ matriz_coeficientes[Vizinha(c, d)] # Padroes
           /\ Cardinality(matriz_coeficientes[c]) >= 2


\* the sum of the frequencies of the patterns possible at cell c
Peso(c) ==
    LET RECURSIVE Soma(_)
        Soma(k) == IF k = 0 THEN 0
                   ELSE Soma(k - 1)
                        + (IF (k - 1) \in matriz_coeficientes[c]
                           THEN frequencias[k] ELSE 0)
    IN  Soma(Len(frequencias))

\* the cells with two or more possible patterns whose entropy (Peso over
\* the total frequency) is the minimum over all such cells
MinimasNaoColapsadas ==
    {c \in CelulasSaida :
        /\ Cardinality(matriz_coeficientes[c]) >= 2
        /\ \A o \in CelulasSaida :
               Cardinality(matriz_coeficientes[o]) >= 2 => Peso(c) <= Peso(o)}

C6_ContradicaoPrimeiro ==
    [][(pc = "observe" /\ \E c \in CelulasSaida : matriz_coeficientes[c] = {})
          => /\ status' = "CONTRADICAO"
             /\ pc' = "fim"
             /\ matriz_coeficientes' = matriz_coeficientes]_vars

\* observe has returned Contradiction on a tensor with one empty cell, one
\* collapsed cell and two cells of two patterns
C6_Witness ==
    /\ pc = "fim"
    /\ status = "CONTRADICAO"
    /\ matriz_coeficientes[<< 0, 0 >>] = {}
    /\ Cardinality(matriz_coeficientes[<< 0, 1 >>]) = 1
    /\ Cardinality(matriz_coeficientes[<< 1, 0 >>]) = 2
    /\ Cardinality(matriz_coeficientes[<< 1, 1 >>]) = 2

\* C9: a call of propague from the cell of the call that has just returned
\* changes no entry of the tensor and leaves the queue empty after
\* dequeuing that cell.
C9_Idempotente ==
    [][(chamada = 2 /\ pc = "while") =>
          /\ matriz_coeficientes' = matriz_coeficientes
          /\ fila_propagacao' = << >>]_vars

\* the repeated call has returned on a tensor in which the first call had
\* narrowed an uncollapsed cell
C9_Witness ==
    /\ chamada = 2
    /\ pc = "observe"
    /\ \E c \in CelulasSaida :
           /\ Cardinality(matriz_coeficientes[c]) >= 2
           /\ matriz_coeficientes[c] # Padroes

\* C10: in the contradiction scenario the solve ends with outcome
\* Contradiction, never Collapsed.
C10_ChegaContradicao == pc = "fim" => status = "CONTRADICAO"

\* the single-pattern scenario: a single-colour 2 x 2 input, pattern size 1,
\* no reflections or rotations, a 4 x 4 output
CenarioUmPadrao ==
    /\ pc = "inicializar"
    /\ imagem.h = 2
    /\ imagem.w = 2
    /\ UmaCor(imagem)
    /\ tamanho_padrao = 1
    /\ ~ inverter
    /\ ~ rotacionar
    /\ altura_saida = 4
    /\ largura_saida = 4

\* one pattern, an empty direction set and 16 cells, each holding exactly
\* that pattern
UmPadraoEmCadaCelula ==
    /\ Len(padroes) = 1
    /\ direcoes = << >>
    /\ Cardinality(CelulasSaida) = 16
    /\ \A c \in CelulasSaida : matriz_coeficientes[c] = {0}

\* inicializar has returned in the scenario and the first observe is due
UmPadraoInicializado == pc = "observe" /\ UmPadraoEmCadaCelula

\* the solve has ended Collapsed
UmPadraoColapsado ==
    pc = "fim" /\ status = "COLAPSADA" /\ UmPadraoEmCadaCelula

\* C11: in the single-pattern scenario the solve terminates with outcome
\* Collapsed and every one of the 16 cells has exactly the one pattern
\* possible: inicializar can run and yields one pattern in each cell, and
\* from there the first observe can run and ends the solve Collapsed.
C11_CenarioUmPadrao ==
    /\ [](CenarioUmPadrao => ENABLED Inicializar)
    /\ [][CenarioUmPadrao => UmPadraoInicializado']_vars
    /\ [](UmPadraoInicializado => ENABLED Observe)
    /\ [][UmPadraoInicializado => UmPadraoColapsado']_vars

\* the scenario has run to its end: the one pattern was counted in each of
\* the four windows of the 2 x 2 image
C11_Witness ==
    UmPadraoColapsado /\ tamanho_padrao = 1 /\ frequencias = << 4 >>

\* C12: observe returns outcome Collapsed if and only if every cell of the
\* tensor has exactly one possible pattern.
C12_ColapsadaSse ==
    [][pc = "observe" =>
          ((status' = "COLAPSADA") <=>
               \A c \in CelulasSaida :
                   Cardinality(matriz_coeficientes[c]) = 1)]_vars

\* observe has returned Collapsed on a tensor of one-pattern cells that do
\* not all hold the same pattern
C12_Witness ==
    /\ pc = "fim"
    /\ status = "COLAPSADA"
    /\ \A c \in CelulasSaida : Cardinality(matriz_coeficientes[c]) = 1
    /\ matriz_coeficientes[<< 0, 0 >>] # matriz_coeficientes[<< 1, 1 >>]
    /\ \E k \in 1 .. Len(frequencias) : frequencias[k] > 1

\* the input image is smaller than the pattern size in some dimension
ImagemMenorQuePadrao ==
    /\ pc = "inicializar"
    /\ imagem.h < tamanho_padrao \/ imagem.w < tamanho_padrao

\* C13: pattern extraction on an input smaller than the pattern size fails
\* and the solve does not start: inicializar ends in an error, no tensor is
\* built and the solve loop is never entered.
C13_EntradaPequenaRejeitada ==
    [][ImagemMenorQuePadrao =>
          /\ pc' = "erro"
          /\ matriz_coeficientes' = matriz_coeficientes
          /\ status' = "NENHUM"]_vars

\* the requested output height or width is not positive
SaidaNaoPositiva == altura_saida <= 0 \/ largura_saida <= 0

\* C14: a solve requested with a non-positive output height or width is
\* rejected before any solving work: inicializar ends in an error without
\* extracting patterns, deriving rules or creating the tensor, and no
\* Collapsed or Contradiction outcome is ever produced.
C14_SaidaNaoPositivaRejeitada ==
    /\ [][(pc = "inicializar" /\ SaidaNaoPositiva) =>
             /\ pc' = "erro"
             /\ padroes' = padroes
             /\ frequencias' = frequencias
             /\ regras' = regras
             /\ matriz_coeficientes' = matriz_coeficientes
             /\ status' = "NENHUM"]_vars
    /\ [](SaidaNaoPositiva => status \notin {"COLAPSADA", "CONTRADICAO"})

\* the loop has printed MENSAGEM_ONDA_COLAPSADA, saved the output image and
\* returned it
ImagemSalva == pc = "fim" /\ status = "COLAPSADA"

\* C15: on outcome Contradiction the solve stops at that observe: the
\* outcome comes from observe and leaves the tensor as it was, no step of
\* the program follows it (no collapse, no propagation, no restart), and
\* no image is saved.
C15_ContradicaoPara ==
    /\ [][status' = "CONTRADICAO" =>
             /\ pc = "observe"
             /\ pc' = "fim"
             /\ matriz_coeficientes' = matriz_coeficientes]_vars
    /\ [][status # "CONTRADICAO"]_vars
    /\ [](status = "CONTRADICAO" => ~ ENABLED Next /\ ~ ImagemSalva)

\* the solve has stopped on a contradiction that a propagation produced:
\* one cell was collapsed, another has no possible pattern left
C15_Witness ==
    /\ pc = "fim"
    /\ status = "CONTRADICAO"
    /\ Len(padroes) >= 2
    /\ \E c \in CelulasSaida : Cardinality(matriz_coeficientes[c]) = 1
    /\ \E c \in CelulasSaida : matriz_coeficientes[c] = {}

\* the cells appended to the queue by the step: fila_propagacao' without
\* Tail(fila_propagacao) in front
Enfileiradas ==
    SubSeq(fila_propagacao', Len(fila_propagacao), Len(fila_propagacao'))

\* C16: the work queue of propague is FIFO and never holds a cell twice:
\* it starts with exactly the just-collapsed cell; each iteration removes
\* the head, keeps the other pending cells in order and appends behind them
\* only neighbours that were strictly narrowed and were not pending; and it
\* is empty when propague returns.
C16_FilaFIFO ==
    /\ [](\A i \in 1 .. Len(fila_propagacao) :
             \A j \in 1 .. Len(fila_propagacao) :
                 fila_propagacao[i] = fila_propagacao[j] => i = j)
    /\ [][pc = "propague" =>
             /\ fila_propagacao' = << min_entropy_pos >>
             /\ celula_colapsada(matriz_coeficientes, min_entropy_pos)]_vars
    /\ [][(pc = "while" /\ pc' = "while") =>
             /\ visitadas' = visitadas \cup {Head(fila_propagacao)}
             /\ Len(fila_propagacao') >= Len(fila_propagacao) - 1
             /\ SubSeq(fila_propagacao', 1, Len(fila_propagacao) - 1)
                    = Tail(fila_propagacao)
             /\ \A k \in 1 .. Len(Enfileiradas) :
                    LET c == Enfileiradas[k]
                    IN  /\ matriz_coeficientes'[c] \subseteq matriz_coeficientes[c]
                        /\ matriz_coeficientes'[c] # matriz_coeficientes[c]
                        /\ ~ NaFila(Tail(fila_propagacao), c)]_vars
    /\ [][(pc = "while" /\ pc' = "observe") => fila_propagacao = << >>]_vars

\* propague is inside its loop, after at least one dequeue, with two or
\* more cells pending, one of them narrowed to a single pattern
C16_Witness ==
    /\ pc = "while"
    /\ Len(fila_propagacao) >= 2
    /\ visitadas # {}
    /\ \E k \in 1 .. Len(fila_propagacao) :
           Cardinality(matriz_coeficientes[fila_propagacao[k]]) = 1

\* C17: no cell outside the output grid is ever read, written or enqueued:
\* the cell observe selects, every queued cell, every cell an iteration of
\* propague addresses and every cell of the tensor has 0 <= row < height
\* and 0 <= column < width.
C17_DentroDaGrade ==
    /\ pc \in {"propague", "while"} => min_entropy_pos \in CelulasSaida
    /\ \A k \in 1 .. Len(fila_propagacao) :
           fila_propagacao[k] \in CelulasSaida
    /\ (pc = "while" /\ fila_propagacao # << >>) =>
           CelulasEnderecadas(Head(fila_propagacao), direcoes,
                              << altura_saida, largura_saida >>)
               \subseteq CelulasSaida
    /\ Resolvendo => DOMAIN matriz_coeficientes = CelulasSaida

\* propague is about to process a narrowed cell that has a neighbour
\* inside the grid and directions that lead outside it
C17_Witness ==
    /\ pc = "while"
    /\ visitadas # {}
    /\ fila_propagacao # << >>
    /\ \E d \in Range(direcoes) :
           Vizinha(Head(fila_propagacao), d) \in CelulasSaida
    /\ \E d \in Range(direcoes) :
           Vizinha(Head(fila_propagacao), d)[1] < 0
    /\ \E d \in Range(direcoes) :
           Vizinha(Head(fila_propagacao), d)[2] >= largura_saida

\* pattern q placed at offset d from pattern p agrees with p on every
\* sample where the two N x N patterns overlap
SobreposicaoIgual(p, q, N, d) ==
    \A a \in 0 .. N - 1 : \A b \in 0 .. N - 1 :
        (a - d[1] \in 0 .. N - 1 /\ b - d[2] \in 0 .. N - 1) =>
            p[a, b] = q[a - d[1], b - d[2]]

\* C18: the rule table equals the overlap-match relation: q is in
\* regras[p][d] iff p and q are identical on their overlap at offset d, and
\* the table equals the one obtained by evaluating check_for_match on every
\* ordered pair of patterns.
\* The table is built by inicializar and never changes during the solve.
C18_RegrasSobreposicao ==
    /\ [](status = "INCIALIZADA" =>
             \A p \in Padroes : \A d \in Range(direcoes) :
                 /\ \A q \in Padroes :
                        (q \in regras[p + 1][d]) <=>
                            SobreposicaoIgual(padroes[p + 1], padroes[q + 1],
                                              tamanho_padrao, d)
                 /\ regras[p + 1][d] =
                        {q \in Padroes :
                            check_for_match(padroes[p + 1], padroes[q + 1],
                                            tamanho_padrao, d)})
    /\ [][Resolvendo => UNCHANGED << regras, padroes, direcoes >>]_vars

\* a table of three or more patterns of size 2 in which a pattern allows an
\* earlier pattern in one direction and does not allow it in another
C18_Witness ==
    /\ Resolvendo
    /\ tamanho_padrao = 2
    /\ Len(padroes) >= 3
    /\ \E p \in Padroes : \E q \in Padroes :
           /\ q < p
           /\ \E d \in Range(direcoes) : q \in regras[p + 1][d]
           /\ \E d \in Range(direcoes) : q \notin regras[p + 1][d]

\* the index of the first occurrence of x in the sequence
PrimeiraOcorrencia(seq, x) ==
    CHOOSE k \in 1 .. Len(seq) :
        seq[k] = x /\ \A m \in 1 .. k - 1 : seq[m] # x

\* C19: the pattern list inicializar keeps holds no two equal patterns and
\* exactly the candidate windows, in order of first occurrence in the
\* candidate list; each frequency is the number of candidates equal to the
\* pattern, so it is >= 1, and the frequencies sum to the number of
\* candidates.
C19_PadroesSemRepeticao ==
    [][pc = "inicializar" =>
          LET candidatos ==
                  extrair_padroes_da_image(imagem, tamanho_padrao,
                                           inverter, rotacionar)
              P == Len(padroes')
          IN  /\ Len(frequencias') = P
              /\ \A i \in 1 .. P : \A j \in 1 .. P :
                     padroes'[i] = padroes'[j] => i = j
              /\ Range(padroes') = Range(candidatos)
              /\ \A i \in 1 .. P : \A j \in 1 .. P :
                     i < j => PrimeiraOcorrencia(candidatos, padroes'[i])
                                < PrimeiraOcorrencia(candidatos, padroes'[j])
              /\ \A i \in 1 .. P :
                     /\ frequencias'[i] =
                            Cardinality({k \in 1 .. Len(candidatos) :
                                            candidatos[k] = padroes'[i]})
                     /\ frequencias'[i] >= 1
              /\ SomaFreq(frequencias', 0 .. P - 1) = Len(candidatos)]_vars

\* inicializar has merged flipped and rotated candidates into three or more
\* patterns with different frequencies, the first occurring more than once
C19_Witness ==
    /\ status = "INCIALIZADA"
    /\ inverter /\ rotacionar
    /\ Len(padroes) >= 3
    /\ frequencias[1] >= 2
    /\ \E k \in 1 .. Len(frequencias) : frequencias[k] # frequencias[1]

\* the sequence dirs is the direction set of pattern size n: exactly the
\* offsets with |dx| < n and |dy| < n other than (0, 0), (2n - 1)^2 - 1 of
\* them, none twice, closed under inversion
DirecoesDoTamanho(dirs, n) ==
    /\ Range(dirs) = {d \in (1 - n .. n - 1) \X (1 - n .. n - 1) :
                         d # << 0, 0 >>}
    /\ Len(dirs) = (2 * n - 1) * (2 * n - 1) - 1
    /\ \A i \in 1 .. Len(dirs) : \A j \in 1 .. Len(dirs) :
           dirs[i] = dirs[j] => i = j
    /\ \A d \in Range(dirs) : inverter_direcao(d) \in Range(dirs)

\* C20: the direction set generated for pattern size N is exactly the set
\* of offsets (dx, dy) with |dx| < N and |dy| < N other than (0, 0), with
\* (2N - 1)^2 - 1 elements, no duplicates, and -d for every d: for the
\* set inicializar stores, and for gerar_direcoes of every size up to
\* MaxTamanhoDirecoes.
C20_DirecoesCompletas ==
    status = "INCIALIZADA" =>
        /\ DirecoesDoTamanho(direcoes, tamanho_padrao)
        /\ \A n \in 1 .. MaxTamanhoDirecoes :
               DirecoesDoTamanho(gerar_direcoes(n), n)

\* inicializar has stored the 8 directions of pattern size 2
C20_Witness ==
    /\ status = "INCIALIZADA"
    /\ tamanho_padrao = 2
    /\ Len(direcoes) = 8
    /\ << 1, -1 >> \in Range(direcoes)

\* C21: phase ordering of a solve: the loop starts with observe; an
\* observe that reports in-progress has collapsed exactly one cell and is
\* followed by one propague started from that cell, which runs until its
\* queue is empty before the next observe; the tensor changes only by the
\* collapse inside observe and by the narrowing inside propague; and no
\* propague runs after a terminal observe.
C21_OrdemDasFases ==
    /\ [][pc = "inicializar" => pc' \in {"observe", "erro"}]_vars
    /\ [][pc = "observe" =>
             \/ /\ status' = "EM_ANDAMENTO"
                /\ pc' = "propague"
                /\ min_entropy_pos' \in CelulasSaida
                /\ Cardinality(matriz_coeficientes'[min_entropy_pos']) = 1
                /\ \A c \in CelulasSaida \ {min_entropy_pos'} :
                       matriz_coeficientes'[c] = matriz_coeficientes[c]
             \/ /\ status' \in {"COLAPSADA", "CONTRADICAO"}
                /\ pc' \in {"fim", "erro"}
                /\ matriz_coeficientes' = matriz_coeficientes]_vars
    /\ [][pc = "propague" =>
             /\ pc' = "while"
             /\ fila_propagacao' = << min_entropy_pos >>
             /\ matriz_coeficientes' = matriz_coeficientes]_vars
    /\ [][pc = "while" =>
             \/ pc' = "while" /\ fila_propagacao # << >>
             \/ /\ pc' = "observe"
                /\ fila_propagacao = << >>
                /\ matriz_coeficientes' = matriz_coeficientes]_vars
    /\ [](pc \in {"propague", "while"} => status = "EM_ANDAMENTO")
    /\ [](status \in {"COLAPSADA", "CONTRADICAO"} => ~ ENABLED Next)

\* observe has collapsed a cell after an earlier propague of the same solve
\* had run to completion
C21_Witness ==
    /\ pc = "propague"
    /\ visitadas # {}
    /\ fila_propagacao = << >>
    /\ Cardinality({c \in CelulasSaida :
                       Cardinality(matriz_coeficientes[c]) = 1}) >= 2

\* the patterns the rules allow in direction d next to a cell holding the
\* set of patterns S
Permitidos(S, d) == {q \in Padroes : \E p \in S : q \in regras[p + 1][d]}

\* C22: propagar_celula from a cell s in direction d returns the current
\* set of s + d intersected with the union of regras[p][d] over the
\* patterns p possible at s, and one iteration of propague from the
\* dequeued cell s sets every
\* neighbour s + d that is inside the grid and not collapsed to exactly its
\* current set intersected with the union of regras[p][d] over the patterns
\* p possible at s (the empty set when s has no possible pattern), and
\* changes no other cell.
C22_PassoDePropagacao ==
  /\ [](\A s \in CelulasSaida : \A d \in Range(direcoes) :
           (pc = "while" /\ Vizinha(s, d) \in CelulasSaida) =>
               propagar_celula(s, d, matriz_coeficientes, regras) =
                   matriz_coeficientes[Vizinha(s, d)]
                       \cap Permitidos(matriz_coeficientes[s], d))
  /\ [][(pc = "while" /\ fila_propagacao # << >>) =>
          LET s == Head(fila_propagacao)
          IN  \A c \in CelulasSaida :
                  LET d == << c[1] - s[1], c[2] - s[2] >>
                  IN  IF /\ d \in Range(direcoes)
                         /\ Cardinality(matriz_coeficientes[c]) # 1
                      THEN /\ matriz_coeficientes'[c] =
                                  matriz_coeficientes[c]
                                      \cap Permitidos(matriz_coeficientes[s], d)
                           /\ matriz_coeficientes[s] = {} =>
                                  matriz_coeficientes'[c] = {}
                      ELSE matriz_coeficientes'[c] = matriz_coeficientes[c]]_vars

\* propague has processed a narrowed cell that still had two or more
\* patterns and narrowed a neighbour of it to two or more patterns that
\* one pattern of the source alone would not give
C22_Witness ==
    /\ pc = "while"
    /\ \E s \in visitadas \ {min_entropy_pos} :
           /\ Cardinality(matriz_coeficientes[s]) >= 2
           /\ \E d \in Range(direcoes) :
                  /\ Vizinha(s, d) \in CelulasSaida
                  /\ Cardinality(matriz_coeficientes[Vizinha(s, d)]) >= 2
                  /\ matriz_coeficientes[Vizinha(s, d)] # Padroes
                  /\ \A p \in matriz_coeficientes[s] :
                         ~ (matriz_coeficientes[Vizinha(s, d)]
                                \subseteq regras[p + 1][d])

\* the cells that have exactly one possible pattern
Colapsadas(m) == {c \in DOMAIN m : Cardinality(m[c]) = 1}

\* C23: a collapsed cell is stable: no step of observe or propague changes
\* a cell that has exactly one possible pattern, so the set of collapsed
\* cells only grows and their number never decreases.
C23_ColapsadaEstavel ==
    [][Resolvendo =>
          /\ \A c \in Colapsadas(matriz_coeficientes) :
                 matriz_coeficientes'[c] = matriz_coeficientes[c]
          /\ Colapsadas(matriz_coeficientes)
                 \subseteq Colapsadas(matriz_coeficientes')
          /\ Cardinality(Colapsadas(matriz_coeficientes'))
                 >= Cardinality(Colapsadas(matriz_coeficientes))]_vars

\* a solve of several patterns has ended Collapsed after two or more
\* observe / propague iterations over three or more cells
C23_Witness ==
    /\ pc = "fim"
    /\ status = "COLAPSADA"
    /\ Len(padroes) >= 2
    /\ Cardinality(CelulasSaida) >= 3
    /\ visitadas # {}
    /\ min_entropy_pos = << -1, -1 >>
    /\ \E c \in CelulasSaida : \E o \in CelulasSaida :
           matriz_coeficientes[c] # matriz_coeficientes[o]

\* the cells of the output that have no possible pattern
Vazias(m) == {c \in DOMAIN m : m[c] = {}}

\* C24: a contradiction is never lost.  A cell without patterns when
\* propague returns is still without patterns at the next observe; an
\* observe on a tensor with such a cell can only return CONTRADICAO, and it
\* ends the solve with the tensor as it was; a cell without patterns stays
\* so in every step of the solve, and the status is never COLAPSADA while
\* there is one.
C24_ContradicaoNaoSePerde ==
    /\ [][(PropagueTerminou /\ Vazias(matriz_coeficientes) # {}) =>
             /\ pc' = "observe"
             /\ Vazias(matriz_coeficientes') = Vazias(matriz_coeficientes)]_vars
    /\ [][(pc = "observe" /\ Vazias(matriz_coeficientes) # {}) =>
             /\ status' = "CONTRADICAO"
             /\ pc' = "fim"
             /\ matriz_coeficientes' = matriz_coeficientes]_vars
    /\ [][Resolvendo =>
             Vazias(matriz_coeficientes) \subseteq Vazias(matriz_coeficientes')]_vars
    /\ []((Resolvendo /\ Vazias(matriz_coeficientes) # {}) =>
             status # "COLAPSADA")
    /\ []((pc = "fim" /\ Vazias(matriz_coeficientes) # {}) =>
             status = "CONTRADICAO")

\* propague has returned leaving cells without patterns beside collapsed
\* ones and no cell with two or more patterns: every entropy is 0
C24_Witness ==
    /\ pc = "observe"
    /\ status = "EM_ANDAMENTO"
    /\ Vazias(matriz_coeficientes) # {}
    /\ Colapsadas(matriz_coeficientes) # {}
    /\ \A c \in CelulasSaida : Cardinality(matriz_coeficientes[c]) <= 1

\* C25: frame of observe.  When observe returns CONTRADICAO or COLAPSADA
\* the tensor is unchanged; when it returns EM_ANDAMENTO only the cell it
\* selected changes, to one of the patterns it had, and every other cell is
\* unchanged.  Frequencies are never written.
C25_QuadroDoObserve ==
    [][pc = "observe" =>
         /\ frequencias' = frequencias
         /\ status' \in {"CONTRADICAO", "COLAPSADA", "EM_ANDAMENTO"}
         /\ status' \in {"CONTRADICAO", "COLAPSADA"} =>
                /\ matriz_coeficientes' = matriz_coeficientes
                /\ min_entropy_pos' = << -1, -1 >>
         /\ status' = "EM_ANDAMENTO" =>
                /\ min_entropy_pos' \in DOMAIN matriz_coeficientes
                /\ DOMAIN matriz_coeficientes' = DOMAIN matriz_coeficientes
                /\ \A c \in DOMAIN matriz_coeficientes :
                       c # min_entropy_pos' =>
                           matriz_coeficientes'[c] = matriz_coeficientes[c]
                /\ matriz_coeficientes'[min_entropy_pos'] # 
                       matriz_coeficientes[min_entropy_pos']
                /\ \E k \in matriz_coeficientes[min_entropy_pos'] :
                       matriz_coeficientes'[min_entropy_pos'] = {k}]_vars

\* observe has collapsed one cell of a row whose other cell still has all
\* the patterns, beside a row that was collapsed already
C25_Witness ==
    /\ pc = "propague"
    /\ status = "EM_ANDAMENTO"
    /\ min_entropy_pos = << 0, 0 >>
    /\ matriz_coeficientes[<< 0, 1 >>] = Padroes
    /\ Cardinality(Padroes) >= 3
    /\ Cardinality(matriz_coeficientes[<< 1, 0 >>]) = 1
    /\ Cardinality(matriz_coeficientes[<< 1, 1 >>]) = 1

\* A variant of the while loop of propague: the number of true entries of
\* the tensor plus the number of pending cells.
VariantePropague ==
    NumVerdadeiros(matriz_coeficientes, CelulasSaida) + Len(fila_propagacao)

\* C26: every call of propague terminates.  The queue starts with one cell;
\* an iteration of the loop can always be taken while the queue is not
\* empty, it removes one cell, and every cell it enqueues has just lost at
\* least one true entry, so the true entries plus the pending cells
\* strictly decrease and stay at or above zero; with the queue empty
\* propague returns.
C26_PropagueTermina ==
    /\ [][pc = "propague" => Len(fila_propagacao') = 1 /\ pc' = "while"]_vars
    /\ [][(pc = "while" /\ fila_propagacao # << >>) =>
             /\ pc' = "while"
             /\ \A i \in 1 .. Len(Enfileiradas) :
                    /\ matriz_coeficientes'[Enfileiradas[i]]
                           \subseteq matriz_coeficientes[Enfileiradas[i]]
                    /\ Cardinality(matriz_coeficientes'[Enfileiradas[i]])
                           < Cardinality(matriz_coeficientes[Enfileiradas[i]])
             /\ Len(fila_propagacao') = Len(fila_propagacao) - 1 + Len(Enfileiradas)
             /\ NumVerdadeiros(matriz_coeficientes', CelulasSaida)
                    + Len(Enfileiradas)
                    <= NumVerdadeiros(matriz_coeficientes, CelulasSaida)
             /\ VariantePropague' < VariantePropague]_vars
    /\ [](pc = "while" =>
             /\ VariantePropague >= 0
             /\ fila_propagacao # << >> => ENABLED PropagueIteracao
             /\ fila_propagacao = << >> => ENABLED PropagueRetorno)
    /\ [][(pc = "while" /\ fila_propagacao = << >>) => pc' = "observe"]_vars

\* a call of propague has emptied its queue after dequeuing the start cell
\* and two or more cells enqueued behind it
C26_Witness ==
    /\ PropagueTerminou
    /\ chamada = 1
    /\ Cardinality(visitadas) >= 3
    /\ min_entropy_pos \in visitadas

\* the candidate list of the image the program was started on
Candidatos ==
    extrair_padroes_da_image(imagem, tamanho_padrao, inverter, rotacionar)

\* the number of windows of the image: (H - N + 1) * (W - N + 1)
NumJanelas ==
    (imagem.h - tamanho_padrao + 1) * (imagem.w - tamanho_padrao + 1)

\* 1 for an enabled option, 0 for a disabled one
Indicador(b) == IF b THEN 1 ELSE 0

\* C27: augmentation uses only the original windows.  The candidate list
\* holds the (H-N+1)*(W-N+1) windows of the image in row-major order, then,
\* with reflections, the flip along axis 0 and the flip along axis 1 of
\* each window, then, with rotations, the one, two and three quarter turns
\* of each window: (H-N+1)*(W-N+1)*(1 + 2*[reflections] + 3*[rotations])
\* candidates.  inicializar keeps exactly these as patterns, and the
\* frequencies add up to their number.
C27_SoJanelasOriginais ==
    /\ [](pc = "inicializar" =>
            LET N == tamanho_padrao
                n == NumJanelas
                nc == imagem.w - N + 1
                L == Candidatos
                I == (0 .. N - 1) \X (0 .. N - 1)
                r == n + 2 * n * Indicador(inverter)
            IN  /\ Len(L) = n * (1 + 2 * Indicador(inverter)
                                   + 3 * Indicador(rotacionar))
                /\ \A i \in 0 .. imagem.h - N : \A j \in 0 .. imagem.w - N :
                       \A x \in I :
                          L[i * nc + j + 1][x] = imagem.px[i + x[1], j + x[2]]
                /\ inverter =>
                       \A k \in 1 .. n : \A x \in I :
                          /\ L[n + k][x] = L[k][N - 1 - x[1], x[2]]
                          /\ L[2 * n + k][x] = L[k][x[1], N - 1 - x[2]]
                /\ rotacionar =>
                       \A k \in 1 .. n : \A x \in I :
                          /\ L[r + k][x] = L[k][x[2], N - 1 - x[1]]
                          /\ L[r + n + k][x] = L[k][N - 1 - x[1], N - 1 - x[2]]
                          /\ L[r + 2 * n + k][x] = L[k][N - 1 - x[2], x[1]])
    /\ [][pc = "inicializar" =>
             /\ Range(padroes') = Range(Candidatos)
             /\ SomaFreq(frequencias', 0 .. (Len(padroes') - 1))
                    = Len(Candidatos)]_vars

\* inicializar has run with reflections and rotations on an image of two
\* windows of size 2: twelve candidates, four or more of them different
C27_Witness ==
    /\ pc = "observe"
    /\ inverter
    /\ rotacionar
    /\ tamanho_padrao = 2
    /\ Len(padroes) >= 4
    /\ SomaFreq(frequencias, Padroes) = 12

\* the arguments that follow the program name
Argumentos == Tail(argv)

\* the texts of the command lines tried that are integers, with the value
\* of each
ValorDoTexto == (<< "2" >> :> 2) @@ (<< "-", "1" >> :> (0 - 1))

\* argument k is given and is exactly the text True
DadoComoTrue(k) ==
    Len(Argumentos) >= k /\ Argumentos[k] = << "T", "r", "u", "e" >>

\* between 4 and 8 arguments, the second to fourth of them integers
LinhaDeComandoValida ==
    /\ Len(Argumentos) \in 4 .. 8
    /\ \A k \in 2 .. 4 : Argumentos[k] \in DOMAIN ValorDoTexto

\* C28: command-line validation.  gerar_mapa_com_padrao is called exactly
\* when between 4 and 8 arguments follow the program name and the pattern
\* size, output height and output width are integers; otherwise the usage
\* message is printed, nothing is called and no step follows.  The call
\* gets the path, the three integers, and the four options: reflections
\* and rotations true only if given as the text True, render iterations
\* and render video false only if given as another text.
C28_ValidacaoDaLinhaDeComando ==
    /\ [][pc = "main" =>
             IF LinhaDeComandoValida
             THEN /\ pc' = "gerar_mapa_com_padrao"
                  /\ argumentos' =
                         << Argumentos[1],
                            ValorDoTexto[Argumentos[2]],
                            ValorDoTexto[Argumentos[3]],
                            ValorDoTexto[Argumentos[4]],
                            DadoComoTrue(5),
                            DadoComoTrue(6),
                            Len(Argumentos) < 7 \/ DadoComoTrue(7),
                            Len(Argumentos) < 8 \/ DadoComoTrue(8) >>
                  /\ tamanho_padrao' = argumentos'[2]
                  /\ altura_saida' = argumentos'[3]
                  /\ largura_saida' = argumentos'[4]
                  /\ inverter' = argumentos'[5]
                  /\ rotacionar' = argumentos'[6]
             ELSE /\ pc' = "uso"
                  /\ argumentos' = << >>]_vars
    /\ [](pc = "uso" =>
             /\ argumentos = << >>
             /\ status = "NENHUM"
             /\ matriz_coeficientes = << >>
             /\ ~ ENABLED Main
             /\ ~ ENABLED Next)
    /\ [](argumentos # << >> =>
             pc = "gerar_mapa_com_padrao" /\ LinhaDeComandoValida)

\* the generator has been called from a command line of six arguments:
\* a negative height, reflections given as True, rotations given as true,
\* and both render options left out
C28_Witness ==
    /\ pc = "gerar_mapa_com_padrao"
    /\ Len(argv) = 7
    /\ argv[6] = TextoTrue
    /\ argv[7] = << "t", "r", "u", "e" >>
    /\ argumentos = << argv[2], 2, 0 - 1, 2, TRUE, FALSE, TRUE, TRUE >>

=============================================================================
